---- MODULE Spec2Model ----
(***************************************************************************)
(* YomiMark content script (src/content/content.js).                       *)
(*                                                                         *)
(* Spec     : the content script as an event-driven state machine.  One    *)
(*            action is one browser task (event handler, timer callback,   *)
(*            kuromoji build callback, message or storage callback)        *)
(*            together with the promise reactions (microtasks) it          *)
(*            schedules, which the event loop runs before the next task.   *)
(*            The popup and the background service worker                  *)
(*            (src/unnamed/part_000) write the stored preference and send  *)
(*            the SET_ENABLED messages the content script receives.        *)
(* SpecStr  : containsKanji and katakanaToHiragana applied to bounded      *)
(*            strings of UTF-16 code units.                                *)
(* SpecTok  : buildRubyHTML applied to bounded token sequences.            *)
(***************************************************************************)
EXTENDS Integers, Sequences, FiniteSets, TLC

VARIABLES
    tokenizer,          \* content.js:10  0 = null, l > 0 = the object built by load l
    tokenizerLoading,   \* content.js:11
    enabled,            \* content.js:12
    floatingBtn,        \* content.js:13  0 = null, b > 0 = a button element
    domBtns,            \* button elements attached to document.body
    loadingBtns,        \* button elements carrying class yomimark-loading
    selection,          \* window.getSelection(), see SelectionKinds
    timers,             \* pending 10 ms callbacks of handleMouseUp
    preloadPending,     \* the 2 s preload timer has not fired yet
    storagePending,     \* the initial chrome.storage.local.get has not called back
    loads,              \* number of kuromoji builds started so far
    inflight,           \* builds whose callback has not fired yet
    calls,              \* the initTokenizer calls made so far, with their promises
    wrappers,           \* calls whose yomimark-annotated wrapper was inserted
    deleted,            \* calls whose selected range was deleted
    yomimarkEnabled,    \* chrome.storage.local: the stored preference
    storageRead,        \* the browser has answered the initial storage read
    storageResult,      \* result.yomimarkEnabled of that answer
    toggleChecked,      \* part_000:8  toggle.checked in the popup
    toggles,            \* number of popup toggles so far
    fromPopup,          \* SET_ENABLED messages in flight from the popup
    fromBackground,     \* SET_ENABLED messages in flight from the background
    op,                 \* the function applied last ("none" before any)
    str,                \* the argument string, a sequence of UTF-16 code units
    tokens,             \* the argument token sequence
    resBool,            \* result of containsKanji(str)
    resStr,             \* result of katakanaToHiragana(str) or buildRubyHTML(tokens)
    resStr2             \* result of katakanaToHiragana(resStr)

vars == <<tokenizer, tokenizerLoading, enabled, floatingBtn, domBtns,
          loadingBtns, selection, timers, preloadPending, storagePending,
          loads, inflight, calls, wrappers, deleted,
          yomimarkEnabled, storageRead, storageResult, toggleChecked,
          toggles, fromPopup, fromBackground,
          op, str, tokens, resBool, resStr, resStr2>>

csVars == <<tokenizer, tokenizerLoading, enabled, floatingBtn, domBtns,
            loadingBtns, selection, timers, preloadPending, storagePending,
            loads, inflight, calls, wrappers, deleted>>

extVars == <<yomimarkEnabled, storageRead, storageResult, toggleChecked,
             toggles, fromPopup, fromBackground>>

pureVars == <<op, str, tokens, resBool, resStr, resStr2>>

\* ---- bounds -------------------------------------------------------------
MaxLoads == 2       \* kuromoji builds started in one run
MaxCalls == 2       \* annotateSelection calls in one run
MaxTimers == 1      \* simultaneously pending 10 ms timers
NumBtnIds == 2      \* distinct button elements alive at once
MaxToggles == 1     \* popup toggles in one run

BtnIds == 1..NumBtnIds
\* what the handlers see of the selection: "none" is no range or only white
\* space (lines 91, 95, 180 all fail), "kana" is text without kanji, "kanji"
\* is text with kanji
SelectionKinds == {"none", "kana", "kanji"}

\* ---- content script: helpers --------------------------------------------

\* mutant: the reference is dropped without removeChild
removeFloatingBtn_dom_noRemoveChild == domBtns

\* content.js:159-164  removeFloatingBtn: the DOM after the call
removeFloatingBtn_dom == domBtns \ {floatingBtn}

\* content.js:136  document.createElement: an element that is neither the
\* current button nor any element still in the document
newBtn == IF \E b \in BtnIds : b \notin domBtns \cup {floatingBtn}
          THEN CHOOSE b \in BtnIds : b \notin domBtns \cup {floatingBtn}
          ELSE CHOOSE b \in BtnIds : b # floatingBtn

\* mutant: the kanji test is dropped
selection_eligible_anyText == selection \in {"kana", "kanji"}

\* content.js:180  selectedText.length > 0 && containsKanji(selectedText)
selection_eligible == selection = "kanji"

\* mutants of the early-return test: one forgets the loading flag, the other
\* the handle
initTokenizer_returnsEarly_noFlag == tokenizer # 0

initTokenizer_returnsEarly_noHandle == tokenizerLoading

\* content.js:33  the early-return test of initTokenizer
initTokenizer_returnsEarly == tokenizer # 0 \/ tokenizerLoading

\* mutant: the reaction does not fail on a null handle
then_throws_never(tk) == FALSE

\* content.js:105  tk.tokenize(...) throws a TypeError when tk is null
then_throws(tk) == tk = 0

\* mutant: the catch branch does not remove the button
reaction_removesBtn_onlyOnSuccess(failed) == ~failed

\* content.js:124, 128  both reactions of annotateSelection end with
\* removeFloatingBtn; failed: the catch branch runs
reaction_removesBtn(failed) == TRUE

\* mutants: the flag is cleared only after the error return, or only
\* before it
build_tokenizerLoading_skipOnError(err) == err /\ tokenizerLoading

build_tokenizerLoading_skipOnSuccess(err) == ~err /\ tokenizerLoading

\* content.js:40  the flag after the build callback; it is cleared before
\* err is looked at
build_tokenizerLoading(err) == FALSE

\* the build whose callback is outstanding (0 when there is none)
currentLoad == IF inflight = {} THEN 0
               ELSE CHOOSE l \in inflight : \A m \in inflight : m <= l

\* content.js:32-51  the record of one initTokenizer call and its promise
Call(who, started, during, outcome, value) ==
    [caller |-> who, load |-> started, during |-> during,
     outcome |-> outcome, value |-> value]

\* a promise settles: every pending call waiting on load l gets the result
Settle(l, outcome, value) ==
    [i \in 1..Len(calls) |->
        IF calls[i].load = l /\ calls[i].outcome = "pending"
        THEN [calls[i] EXCEPT !.outcome = outcome, !.value = value]
        ELSE calls[i]]

\* the number of annotateSelection calls among the first n calls
RECURSIVE annotateCalls(_)
annotateCalls(n) ==
    IF n = 0 THEN 0
    ELSE annotateCalls(n - 1) + (IF calls[n].caller = "annotate" THEN 1 ELSE 0)

\* annotateSelection calls that wait on load l
Waiters(l) == {i \in 1..Len(calls) :
                 /\ calls[i].load = l
                 /\ calls[i].outcome = "pending"
                 /\ calls[i].caller = "annotate"}

InitCS ==
    /\ tokenizer = 0
    /\ tokenizerLoading = FALSE
    /\ enabled = TRUE
    /\ floatingBtn = 0
    /\ domBtns = {}
    /\ loadingBtns = {}
    /\ selection = "none"
    /\ timers = 0
    /\ preloadPending = TRUE
    /\ storagePending = TRUE
    /\ loads = 0
    /\ inflight = {}
    /\ calls = <<>>
    /\ wrappers = {}
    /\ deleted = {}
    /\ yomimarkEnabled \in BOOLEAN
    /\ storageRead = FALSE
    /\ storageResult = FALSE
    /\ toggleChecked = yomimarkEnabled      \* part_000:13-17
    /\ toggles = 0
    /\ fromPopup = <<>>
    /\ fromBackground = <<>>

InitPure ==
    /\ op = "none"
    /\ str = <<>>
    /\ tokens = <<>>
    /\ resBool = FALSE
    /\ resStr = <<>>
    /\ resStr2 = <<>>

Init == InitCS /\ InitPure

\* ---- content script: actions --------------------------------------------

\* the user changes the selection on the page
SelectText(k) ==
    /\ k \in SelectionKinds
    /\ selection # k
    /\ selection' = k
    /\ UNCHANGED <<tokenizer, tokenizerLoading, enabled, floatingBtn, domBtns,
                   loadingBtns, timers, preloadPending, storagePending,
                   loads, inflight, calls, wrappers, deleted>>
    /\ UNCHANGED extVars
    /\ UNCHANGED pureVars

\* content.js:167-193  handleMouseUp, up to the setTimeout; onBtn: the
\* event target is the floating button
handleMouseUp(onBtn) ==
    /\ onBtn => domBtns # {}
    /\ timers < MaxTimers
    /\ timers' = IF ~enabled \/ onBtn THEN timers ELSE timers + 1
    /\ UNCHANGED <<tokenizer, tokenizerLoading, enabled, floatingBtn, domBtns,
                   loadingBtns, selection, preloadPending, storagePending,
                   loads, inflight, calls, wrappers, deleted>>
    /\ UNCHANGED extVars
    /\ UNCHANGED pureVars

\* content.js:176-192  the 10 ms callback of handleMouseUp
SelectionTimer ==
    /\ timers > 0
    /\ timers' = timers - 1
    /\ IF selection_eligible
       THEN \* createFloatingBtn: removeFloatingBtn, then a fresh button
            /\ floatingBtn' = newBtn
            /\ domBtns' = removeFloatingBtn_dom \cup {newBtn}
            /\ loadingBtns' = (loadingBtns \ {floatingBtn}) \ {newBtn}
       ELSE \* removeFloatingBtn
            /\ floatingBtn' = 0
            /\ domBtns' = removeFloatingBtn_dom
            /\ loadingBtns' = loadingBtns \ {floatingBtn}
    /\ UNCHANGED <<tokenizer, tokenizerLoading, enabled, selection,
                   preloadPending, storagePending, loads, inflight, calls,
                   wrappers, deleted>>
    /\ UNCHANGED extVars
    /\ UNCHANGED pureVars

\* content.js:195-200  handleMouseDown on anything but the button
handleMouseDown ==
    /\ floatingBtn' = 0
    /\ domBtns' = removeFloatingBtn_dom
    /\ loadingBtns' = loadingBtns \ {floatingBtn}
    /\ UNCHANGED <<tokenizer, tokenizerLoading, enabled, selection, timers,
                   preloadPending, storagePending, loads, inflight, calls,
                   wrappers, deleted>>
    /\ UNCHANGED extVars
    /\ UNCHANGED pureVars

\* content.js:145-149, 89-130  mousedown on the button: annotateSelection,
\* with the promise reactions that run when initTokenizer returned an
\* already-resolved promise
annotateSelection(b) ==
    /\ b \in domBtns
    /\ selection \in {"kana", "kanji"}          \* lines 91, 95
    /\ annotateCalls(Len(calls)) < MaxCalls
    /\ LET id == Len(calls) + 1 IN
       IF initTokenizer_returnsEarly
       THEN \* Promise.resolve(tokenizer): the reaction runs in this task
            /\ calls' = Append(calls,
                 Call("annotate", 0, currentLoad, "resolved", tokenizer))
            /\ IF then_throws(tokenizer)
               THEN \* TypeError -> catch (lines 126-129)
                    UNCHANGED <<wrappers, deleted, selection>>
               ELSE \* lines 105-123
                    /\ deleted' = deleted \cup {id}
                    /\ wrappers' = wrappers \cup {id}
                    /\ selection' = "none"
            /\ IF reaction_removesBtn(then_throws(tokenizer))
               THEN /\ floatingBtn' = 0          \* removeFloatingBtn
                    /\ domBtns' = removeFloatingBtn_dom
                    /\ loadingBtns' = loadingBtns \ {floatingBtn}
               ELSE UNCHANGED <<floatingBtn, domBtns, loadingBtns>>
            /\ UNCHANGED <<tokenizerLoading, loads, inflight>>
       ELSE \* lines 34-50: a build starts, the promise stays pending
            /\ loads < MaxLoads
            /\ tokenizerLoading' = TRUE
            /\ loads' = loads + 1
            /\ inflight' = inflight \cup {loads + 1}
            /\ calls' = Append(calls,
                 Call("annotate", loads + 1, 0, "pending", 0))
            /\ loadingBtns' = IF floatingBtn # 0
                              THEN loadingBtns \cup {floatingBtn}
                              ELSE loadingBtns
            /\ UNCHANGED <<floatingBtn, domBtns, wrappers, deleted, selection>>
    /\ UNCHANGED <<tokenizer, enabled, timers, preloadPending, storagePending>>
    /\ UNCHANGED extVars
    /\ UNCHANGED pureVars

\* content.js:232-238  the 2 s preload timer
PreloadTimer ==
    /\ preloadPending
    /\ preloadPending' = FALSE
    /\ IF ~enabled
       THEN UNCHANGED <<tokenizerLoading, loads, inflight, calls>>
       ELSE IF initTokenizer_returnsEarly
       THEN /\ calls' = Append(calls,
                 Call("preload", 0, currentLoad, "resolved", tokenizer))
            /\ UNCHANGED <<tokenizerLoading, loads, inflight>>
       ELSE /\ loads < MaxLoads
            /\ tokenizerLoading' = TRUE
            /\ loads' = loads + 1
            /\ inflight' = inflight \cup {loads + 1}
            /\ calls' = Append(calls,
                 Call("preload", loads + 1, 0, "pending", 0))
    /\ UNCHANGED <<tokenizer, enabled, floatingBtn, domBtns, loadingBtns,
                   selection, timers, storagePending, wrappers, deleted>>
    /\ UNCHANGED extVars
    /\ UNCHANGED pureVars

\* content.js:39-49  the kuromoji build callback of load l, with the
\* reactions of the promise it settles (lines 104-129, 234-236)
BuildCallback(l, err) ==
    /\ l \in inflight
    /\ inflight' = inflight \ {l}
    /\ tokenizerLoading' = build_tokenizerLoading(err)
    /\ IF err
       THEN /\ calls' = Settle(l, "rejected", l)
            /\ UNCHANGED <<tokenizer, wrappers, deleted, selection>>
       ELSE /\ tokenizer' = l
            /\ calls' = Settle(l, "resolved", l)
            /\ wrappers' = wrappers \cup Waiters(l)
            /\ deleted' = deleted \cup Waiters(l)
            /\ selection' = IF Waiters(l) # {} THEN "none" ELSE selection
    /\ IF Waiters(l) # {} /\ reaction_removesBtn(err)
       THEN \* removeFloatingBtn in either branch
            /\ floatingBtn' = 0
            /\ domBtns' = removeFloatingBtn_dom
            /\ loadingBtns' = loadingBtns \ {floatingBtn}
       ELSE UNCHANGED <<floatingBtn, domBtns, loadingBtns>>
    /\ UNCHANGED <<enabled, timers, preloadPending, storagePending, loads>>
    /\ UNCHANGED extVars
    /\ UNCHANGED pureVars

\* content.js:203-208  setEnabled
setEnabled(state) ==
    /\ state \in BOOLEAN
    /\ enabled' = state
    /\ IF ~state
       THEN /\ floatingBtn' = 0
            /\ domBtns' = removeFloatingBtn_dom
            /\ loadingBtns' = loadingBtns \ {floatingBtn}
       ELSE UNCHANGED <<floatingBtn, domBtns, loadingBtns>>
    /\ UNCHANGED <<tokenizer, tokenizerLoading, selection, timers,
                   preloadPending, storagePending, loads, inflight, calls,
                   wrappers, deleted>>
    /\ UNCHANGED pureVars

\* content.js:211-218  the message listener receives the popup's SET_ENABLED
OnMessageFromPopup ==
    /\ fromPopup # <<>>
    /\ setEnabled(Head(fromPopup))
    /\ fromPopup' = Tail(fromPopup)
    /\ UNCHANGED <<yomimarkEnabled, storageRead, storageResult, toggleChecked,
                   toggles, fromBackground>>

\* content.js:211-218  the message listener receives the background's
\* SET_ENABLED
OnMessageFromBackground ==
    /\ fromBackground # <<>>
    /\ setEnabled(Head(fromBackground))
    /\ fromBackground' = Tail(fromBackground)
    /\ UNCHANGED <<yomimarkEnabled, storageRead, storageResult, toggleChecked,
                   toggles, fromPopup>>

\* content.js:221  the browser answers chrome.storage.local.get
StorageGetRead ==
    /\ ~storageRead
    /\ storageRead' = TRUE
    /\ storageResult' = yomimarkEnabled
    /\ UNCHANGED <<yomimarkEnabled, toggleChecked, toggles, fromPopup,
                   fromBackground>>
    /\ UNCHANGED csVars
    /\ UNCHANGED pureVars

\* content.js:221-225  callback of the initial storage read
StorageGetCallback(result) ==
    /\ storagePending
    /\ storageRead
    /\ result = storageResult
    /\ storagePending' = FALSE
    /\ enabled' = IF result = FALSE THEN FALSE ELSE enabled
    /\ storageResult' = FALSE                \* the answer is consumed
    /\ UNCHANGED <<tokenizer, tokenizerLoading, floatingBtn, domBtns,
                   loadingBtns, selection, timers, preloadPending, loads,
                   inflight, calls, wrappers, deleted>>
    /\ UNCHANGED <<yomimarkEnabled, storageRead, toggleChecked, toggles,
                   fromPopup, fromBackground>>
    /\ UNCHANGED pureVars

\* part_000:70-90  the background's storage.onChanged listener with its
\* tabs.query callback: SET_ENABLED with the new value goes to every tab
broadcast(newValue) == Append(fromBackground, newValue)

\* part_000:20-43  the popup's change handler with its tabs.query callback;
\* the tab of this content script is the active one, tabs[0].  The stored
\* value changes at line 24, which makes the background broadcast it.
PopupToggle ==
    /\ toggles < MaxToggles
    /\ toggles' = toggles + 1
    /\ toggleChecked' = ~toggleChecked
    /\ LET isEnabled == ~toggleChecked IN
         /\ yomimarkEnabled' = isEnabled                       \* line 24
         /\ fromBackground' = IF isEnabled # yomimarkEnabled
                              THEN broadcast(isEnabled) ELSE fromBackground
         /\ fromPopup' = Append(fromPopup, isEnabled)           \* lines 27-40
    /\ UNCHANGED <<storageRead, storageResult>>
    /\ UNCHANGED csVars
    /\ UNCHANGED pureVars

Next ==
    \/ \E k \in SelectionKinds : SelectText(k)
    \/ \E onBtn \in BOOLEAN : handleMouseUp(onBtn)
    \/ SelectionTimer
    \/ handleMouseDown
    \/ \E b \in BtnIds : annotateSelection(b)
    \/ PreloadTimer
    \/ \E l \in 1..MaxLoads, err \in BOOLEAN : BuildCallback(l, err)
    \/ OnMessageFromPopup
    \/ OnMessageFromBackground
    \/ StorageGetRead
    \/ \E result \in BOOLEAN : StorageGetCallback(result)
    \/ PopupToggle

Spec == Init /\ [][Next]_vars

\* every kuromoji build calls back at some time
SpecLive ==
    /\ Init
    /\ [][Next]_vars
    /\ WF_vars(\E l \in 1..MaxLoads, err \in BOOLEAN : BuildCallback(l, err))

\* ---- pure functions -----------------------------------------------------

\* mutant: the upper end of the first range is one short
KANJI_REGEX_short(ch) ==
    \/ (ch >= \H4E00 /\ ch <= \H9FFE)
    \/ (ch >= \H3400 /\ ch <= \H4DBF)

\* content.js:18  KANJI_REGEX matches the code unit ch
KANJI_REGEX(ch) ==
    \/ (ch >= \H4E00 /\ ch <= \H9FFF)
    \/ (ch >= \H3400 /\ ch <= \H4DBF)

\* content.js:20-22  RegExp.prototype.test scans for the first match
RECURSIVE containsKanji(_)
containsKanji(s) ==
    IF s = <<>> THEN FALSE
    ELSE IF KANJI_REGEX(Head(s)) THEN TRUE
    ELSE containsKanji(Tail(s))

\* mutant: the whole katakana block is shifted
katakanaToHiragana_ch_block(ch) ==
    IF ch >= \H30A1 /\ ch <= \H30FF THEN (ch - \H60) % 65536 ELSE ch

\* mutant: a wrong offset
katakanaToHiragana_ch_offset(ch) ==
    IF ch >= \H30A1 /\ ch <= \H30F6 THEN (ch - \H10) % 65536 ELSE ch

\* content.js:26-28  the regular expression and the replacement callback,
\* for one code unit; String.fromCharCode keeps the low 16 bits
katakanaToHiragana_ch(ch) ==
    IF ch >= \H30A1 /\ ch <= \H30F6 THEN (ch - \H60) % 65536 ELSE ch

\* content.js:25-29  String.prototype.replace with a global pattern
RECURSIVE katakanaToHiragana(_)
katakanaToHiragana(s) ==
    IF s = <<>> THEN <<>>
    ELSE <<katakanaToHiragana_ch(Head(s))>> \o katakanaToHiragana(Tail(s))

\* mutant: nothing is escaped
escapeHTML_ch_raw(ch) == <<ch>>

\* content.js:82-86  serialisation of a text node by innerHTML, for one
\* code unit: & < > and U+00A0 become entities
escapeHTML_ch(ch) ==
    IF ch = 38 THEN <<38, 97, 109, 112, 59>>               \* &amp;
    ELSE IF ch = 60 THEN <<38, 108, 116, 59>>              \* &lt;
    ELSE IF ch = 62 THEN <<38, 103, 116, 59>>              \* &gt;
    ELSE IF ch = 160 THEN <<38, 110, 98, 115, 112, 59>>    \* &nbsp;
    ELSE <<ch>>

\* content.js:82-86  escapeHTML
RECURSIVE escapeHTML(_)
escapeHTML(s) ==
    IF s = <<>> THEN <<>>
    ELSE escapeHTML_ch(Head(s)) \o escapeHTML(Tail(s))

\* content.js:67  '<ruby class="yomimark-ruby">'
RUBY_OPEN == <<60, 114, 117, 98, 121, 32, 99, 108, 97, 115, 115, 61, 34,
               121, 111, 109, 105, 109, 97, 114, 107, 45, 114, 117, 98, 121,
               34, 62>>

\* content.js:69  "<rp>(</rp><rt>"
RUBY_MID == <<60, 114, 112, 62, 40, 60, 47, 114, 112, 62, 60, 114, 116, 62>>

\* content.js:71  "</rt><rp>)</rp></ruby>"
RUBY_CLOSE == <<60, 47, 114, 116, 62, 60, 114, 112, 62, 41, 60, 47, 114, 112,
                62, 60, 47, 114, 117, 98, 121, 62>>

\* a token of kuromoji: reading is undefined when has_reading is FALSE
Token(surface, has, reading) ==
    [surface_form |-> surface, has_reading |-> has, reading |-> reading]

\* mutant: the comparison of the reading with the surface is dropped
buildRubyHTML_segment_noCompare(token) ==
    IF containsKanji(token.surface_form)
         /\ token.has_reading /\ token.reading # <<>>
    THEN RUBY_OPEN \o escapeHTML(token.surface_form) \o RUBY_MID
           \o escapeHTML(katakanaToHiragana(token.reading)) \o RUBY_CLOSE
    ELSE escapeHTML(token.surface_form)

\* mutant: the test of the reading is dropped; katakanaToHiragana(undefined)
\* throws a TypeError, shown as a result that is not a code unit
buildRubyHTML_segment_noReadingTest(token) ==
    IF containsKanji(token.surface_form)
    THEN IF ~token.has_reading THEN <<-1>>
         ELSE IF katakanaToHiragana(token.reading) # token.surface_form
         THEN RUBY_OPEN \o escapeHTML(token.surface_form) \o RUBY_MID
                \o escapeHTML(katakanaToHiragana(token.reading))
                \o RUBY_CLOSE
         ELSE escapeHTML(token.surface_form)
    ELSE escapeHTML(token.surface_form)

\* content.js:57-77  what one iteration of the loop appends to html
buildRubyHTML_segment(token) ==
    IF containsKanji(token.surface_form)
         /\ token.has_reading /\ token.reading # <<>>       \* line 62
    THEN IF katakanaToHiragana(token.reading) # token.surface_form
         THEN RUBY_OPEN \o escapeHTML(token.surface_form) \o RUBY_MID
                \o escapeHTML(katakanaToHiragana(token.reading))
                \o RUBY_CLOSE
         ELSE escapeHTML(token.surface_form)
    ELSE escapeHTML(token.surface_form)

\* mutant: each segment is put in front of html
RECURSIVE buildRubyHTML_loop_prepend(_, _, _)
buildRubyHTML_loop_prepend(toks, i, html) ==
    IF i > Len(toks) THEN html
    ELSE buildRubyHTML_loop_prepend(toks, i + 1,
                                    buildRubyHTML_segment(toks[i]) \o html)

\* content.js:56-78  the for loop, from index i (1-based) with html so far
RECURSIVE buildRubyHTML_loop(_, _, _)
buildRubyHTML_loop(toks, i, html) ==
    IF i > Len(toks) THEN html
    ELSE buildRubyHTML_loop(toks, i + 1,
                            html \o buildRubyHTML_segment(toks[i]))

\* content.js:54-80  buildRubyHTML
buildRubyHTML(toks) == buildRubyHTML_loop(toks, 1, <<>>)

\* ---- inputs of the pure-function specifications -------------------------
MaxStrLen == 2      \* code units in an argument string
MaxTokens == 2      \* tokens in an argument sequence

\* code units at and around the ends of the ranges the functions test
StrChars == {\H33FF, \H3400, \H4DBF, \H4DC0, \H4DFF, \H4E00, \H9FFF, \HA000,
             \H30A0, \H30A1, \H30F6, \H30F7, \H30FC, \H3041, \H3096, 97}

Strings == UNION {[1..n -> StrChars] : n \in 0..MaxStrLen}

\* surface forms: empty, kanji, katakana, kanji with okurigana, text with
\* markup characters, kanji next to markup characters
Surfaces == {<<>>, <<\H6F22>>, <<\H30AB>>, <<\H98DF, \H3079>>,
             <<60, 38, 62>>, <<\H6F22, 60, 38>>}

\* readings: empty, katakana, katakana with a long-vowel mark, a reading
\* equal to a kanji surface, readings with markup characters
Readings == {<<>>, <<\H30AB>>, <<\H30BF, \H30FC>>, <<\H6F22>>,
             <<\H30AB, 62, 38>>, <<60>>}

Tokens == {Token(s, TRUE, r) : s \in Surfaces, r \in Readings}
            \cup {Token(s, FALSE, <<>>) : s \in Surfaces}

TokenSeqs == UNION {[1..n -> Tokens] : n \in 0..MaxTokens}

InitStr ==
    /\ InitCS
    /\ yomimarkEnabled
    /\ op = "input"
    /\ str \in Strings
    /\ tokens = <<>>
    /\ resBool = FALSE
    /\ resStr = <<>>
    /\ resStr2 = <<>>

InitTok ==
    /\ InitCS
    /\ yomimarkEnabled
    /\ op = "input"
    /\ str = <<>>
    /\ tokens \in TokenSeqs
    /\ resBool = FALSE
    /\ resStr = <<>>
    /\ resStr2 = <<>>

\* containsKanji(str) is called
ApplyContainsKanji ==
    /\ op = "input"
    /\ op' = "containsKanji"
    /\ resBool' = containsKanji(str)
    /\ UNCHANGED <<str, tokens, resStr, resStr2>>
    /\ UNCHANGED csVars
    /\ UNCHANGED extVars

\* katakanaToHiragana(str) is called
ApplyKatakanaToHiragana ==
    /\ op = "input"
    /\ op' = "katakanaToHiragana"
    /\ resStr' = katakanaToHiragana(str)
    /\ UNCHANGED <<str, tokens, resBool, resStr2>>
    /\ UNCHANGED csVars
    /\ UNCHANGED extVars

\* katakanaToHiragana is called on its own result
ApplyKatakanaToHiraganaAgain ==
    /\ op = "katakanaToHiragana"
    /\ op' = "katakanaToHiraganaAgain"
    /\ resStr2' = katakanaToHiragana(resStr)
    /\ UNCHANGED <<str, tokens, resBool, resStr>>
    /\ UNCHANGED csVars
    /\ UNCHANGED extVars

\* buildRubyHTML(tokens) is called
ApplyBuildRubyHTML ==
    /\ op = "input"
    /\ op' = "buildRubyHTML"
    /\ resStr' = buildRubyHTML(tokens)
    /\ UNCHANGED <<str, tokens, resBool, resStr2>>
    /\ UNCHANGED csVars
    /\ UNCHANGED extVars

NextStr ==
    \/ ApplyContainsKanji
    \/ ApplyKatakanaToHiragana
    \/ ApplyKatakanaToHiraganaAgain

SpecStr == InitStr /\ [][NextStr]_vars

NextTok == ApplyBuildRubyHTML

SpecTok == InitTok /\ [][NextTok]_vars

\* ---- claims about the content script ------------------------------------

\* the call that started load l
Starter(l) == CHOOSE i \in 1..Len(calls) : calls[i].load = l

SomeLoadSucceeded ==
    \E i \in 1..Len(calls) :
        calls[i].load # 0 /\ calls[i].outcome = "resolved"

\* C1: an initTokenizer call made while an earlier build is in flight stays
\* pending until that build's callback fires, and then has the same outcome
\* (the same handle, or the same failure) as the call that started the build.
C1_SingleFlightWait ==
    \A i \in 1..Len(calls) :
        calls[i].during # 0 =>
            IF calls[i].during \in inflight
            THEN calls[i].outcome = "pending"
            ELSE /\ calls[i].outcome = calls[Starter(calls[i].during)].outcome
                 /\ calls[i].value = calls[Starter(calls[i].during)].value

\* C2: at most one kuromoji build is in flight at any time, and no step
\* taken while a build is in flight or after a build has succeeded starts
\* another build.
C2_AtMostOneLoad ==
    /\ [](Cardinality(inflight) <= 1)
    /\ [][(inflight # {} \/ SomeLoadSucceeded) => loads' = loads]_vars

\* C2 witness: two initTokenizer calls were made while the one build was
\* in flight, and a third after it had succeeded.
C2_Witness ==
    /\ loads = 1
    /\ SomeLoadSucceeded
    /\ \E i \in 1..Len(calls) : calls[i].during = 1
    /\ \E i \in 1..Len(calls) :
          calls[i].load = 0 /\ calls[i].during = 0 /\ calls[i].value = 1

\* C3: an annotateSelection request whose initTokenizer promise rejects, or
\* resolves without a tokenizer because the build has not completed, leaves
\* the page as it was: its range is not deleted and no wrapper is inserted;
\* a range is deleted only together with the insertion of its wrapper.
C3_FailureLeavesPageUnannotated ==
    /\ \A i \in 1..Len(calls) :
          (calls[i].caller = "annotate"
             /\ (calls[i].outcome = "rejected"
                   \/ (calls[i].outcome = "resolved" /\ calls[i].value = 0)))
          => (i \notin wrappers /\ i \notin deleted)
    /\ wrappers = deleted

\* C3 witness: one request failed because its build failed, another because
\* the build had not completed when it was made.
C3_Witness ==
    /\ \E i \in 1..Len(calls) :
          calls[i].caller = "annotate" /\ calls[i].outcome = "rejected"
    /\ \E j \in 1..Len(calls) :
          /\ calls[j].caller = "annotate"
          /\ calls[j].outcome = "resolved"
          /\ calls[j].value = 0
          /\ calls[j].during # 0

\* C4: the handle changes only from null to the object built by a build
\* whose callback fires in that step, and once non-null it never changes.
C4_WriteOnce ==
    [][/\ (tokenizer # 0 => tokenizer' = tokenizer)
       /\ (tokenizer' # tokenizer =>
             tokenizer' \in inflight /\ tokenizer' \notin inflight')]_vars

\* C4 witness: the handle is set, a later initTokenizer call has returned
\* it, and the script has been disabled since.
C4_Witness ==
    /\ tokenizer # 0
    /\ ~enabled
    /\ \E i \in 1..Len(calls) :
          calls[i].load = 0 /\ calls[i].value = tokenizer

\* ---- claims about the pure functions ------------------------------------

\* code units of CJK Unified Ideographs and of Extension A, in decimal
IsKanjiUnit(ch) == ch \in 19968..40959 \/ ch \in 13312..19903

HasKanji(s) == \E i \in 1..Len(s) : IsKanjiUnit(s[i])

\* U+30A1..U+30F6 is 12449..12534, 0x60 is 96
Hira(s) == [i \in 1..Len(s) |->
              IF s[i] \in 12449..12534 THEN s[i] - 96 ELSE s[i]]

\* C8: containsKanji(str) is true exactly when str has a code unit in
\* U+4E00..U+9FFF or U+3400..U+4DBF (so it is false for the empty string and
\* for every string made of other characters).
C8_ContainsKanjiIff ==
    op = "containsKanji" => (resBool <=> HasKanji(str))

\* C8 witness: a true result on a string whose only kanji is U+4DBF, behind
\* a character outside both ranges.
C8_Witness ==
    /\ op = "containsKanji"
    /\ resBool
    /\ Len(str) = 2
    /\ ~IsKanjiUnit(str[1])
    /\ str[2] = 19903

\* C9: katakanaToHiragana keeps the length and the order of the string, maps
\* every code unit in U+30A1..U+30F6 to the one 0x60 lower and leaves every
\* other code unit (U+30FC among them) as it is.
C9_KatakanaToHiraganaPointwise ==
    op = "katakanaToHiragana" =>
        /\ Len(resStr) = Len(str)
        /\ \A i \in 1..Len(str) :
              resStr[i] = IF str[i] >= 12449 /\ str[i] <= 12534
                          THEN str[i] - 96 ELSE str[i]

\* C9 witness: a string with the long-vowel mark in front of U+30F6.
C9_Witness ==
    /\ op = "katakanaToHiragana"
    /\ str = <<12540, 12534>>
    /\ resStr = <<12540, 12438>>

\* C10: applying katakanaToHiragana to its own result changes nothing.
C10_Idempotent ==
    op = "katakanaToHiraganaAgain" => resStr2 = resStr

\* C10 witness: the second application ran on a string the first one changed.
C10_Witness ==
    /\ op = "katakanaToHiraganaAgain"
    /\ resStr # str
    /\ Len(str) = 2

\* the token is to be emitted as a ruby pairing
GetsRuby(token) ==
    /\ HasKanji(token.surface_form)
    /\ token.has_reading
    /\ token.reading # <<>>
    /\ Hira(token.reading) # token.surface_form

\* the segment the decision rule prescribes for one token
RuleSegment(token) ==
    IF GetsRuby(token)
    THEN RUBY_OPEN \o escapeHTML(token.surface_form) \o RUBY_MID
           \o escapeHTML(Hira(token.reading)) \o RUBY_CLOSE
    ELSE escapeHTML(token.surface_form)

RECURSIVE ConcatMap(_, _, _)
ConcatMap(F(_), toks, i) ==
    IF i > Len(toks) THEN <<>>
    ELSE F(toks[i]) \o ConcatMap(F, toks, i + 1)

\* C5: the output of buildRubyHTML is made, token by token, of a ruby
\* pairing (escaped surface, escaped hiragana reading) when the surface has
\* kanji, the reading is present and non-empty and its hiragana form differs
\* from the surface, and of the escaped surface alone in every other case.
C5_DecisionRule ==
    op = "buildRubyHTML" => resStr = ConcatMap(RuleSegment, tokens, 1)

\* C5 witness: a token that gets a ruby pairing next to a kanji-free token
\* whose reading differs from its surface.
C5_Witness ==
    /\ op = "buildRubyHTML"
    /\ Len(tokens) = 2
    /\ GetsRuby(tokens[1])
    /\ ~HasKanji(tokens[2].surface_form)
    /\ tokens[2].has_reading
    /\ tokens[2].reading # <<>>
    /\ Hira(tokens[2].reading) # tokens[2].surface_form

StartsWith(s, i, p) ==
    /\ i + Len(p) - 1 <= Len(s)
    /\ SubSeq(s, i, i + Len(p) - 1) = p

Entities == {<<38, 97, 109, 112, 59>>, <<38, 108, 116, 59>>,
             <<38, 103, 116, 59>>, <<38, 110, 98, 115, 112, 59>>}

\* Reads markup from position i.  mode 0: outside a ruby element, 1: in its
\* base text, 2: in its rt text.  ok: every & starts an entity and every
\* < and > belongs to a ruby tag in its place; text: the markup without the
\* ruby tags and the rt parts; rubies: the number of ruby elements.
RECURSIVE Parse(_, _, _, _, _)
Parse(s, i, mode, text, rubies) ==
    IF i > Len(s)
    THEN [ok |-> mode = 0, text |-> text, rubies |-> rubies]
    ELSE IF s[i] = 38
    THEN IF \E e \in Entities : StartsWith(s, i, e)
         THEN LET e == CHOOSE x \in Entities : StartsWith(s, i, x)
              IN  Parse(s, i + Len(e), mode,
                        IF mode = 2 THEN text ELSE text \o e, rubies)
         ELSE [ok |-> FALSE, text |-> text, rubies |-> rubies]
    ELSE IF s[i] = 60
    THEN IF mode = 0 /\ StartsWith(s, i, RUBY_OPEN)
         THEN Parse(s, i + Len(RUBY_OPEN), 1, text, rubies)
         ELSE IF mode = 1 /\ StartsWith(s, i, RUBY_MID)
         THEN Parse(s, i + Len(RUBY_MID), 2, text, rubies)
         ELSE IF mode = 2 /\ StartsWith(s, i, RUBY_CLOSE)
         THEN Parse(s, i + Len(RUBY_CLOSE), 0, text, rubies + 1)
         ELSE [ok |-> FALSE, text |-> text, rubies |-> rubies]
    ELSE IF s[i] = 62
    THEN [ok |-> FALSE, text |-> text, rubies |-> rubies]
    ELSE Parse(s, i + 1, mode,
               IF mode = 2 THEN text ELSE Append(text, s[i]), rubies)

Surface(token) == token.surface_form

SingleOutput(token) == buildRubyHTML(<<token>>)

Count(s, ch) == Cardinality({i \in 1..Len(s) : s[i] = ch})

\* C6: the output is the concatenation, in input order, of the outputs for
\* the single tokens, and without the ruby tags and the rt parts it is the
\* escaped concatenation of the surface forms.
C6_OrderAndLocality ==
    op = "buildRubyHTML" =>
        /\ resStr = ConcatMap(SingleOutput, tokens, 1)
        /\ Parse(resStr, 1, 0, <<>>, 0).ok
        /\ Parse(resStr, 1, 0, <<>>, 0).text
             = escapeHTML(ConcatMap(Surface, tokens, 1))

\* C6 witness: a ruby pairing followed by a different, plain token.
C6_Witness ==
    /\ op = "buildRubyHTML"
    /\ Len(tokens) = 2
    /\ GetsRuby(tokens[1])
    /\ ~GetsRuby(tokens[2])
    /\ tokens[2].surface_form # <<>>
    /\ tokens[2].surface_form # tokens[1].surface_form

\* C7: in the output every & starts an entity and the only < and > are the
\* eight of each ruby element's own tags.
C7_InjectionSafe ==
    op = "buildRubyHTML" =>
        /\ Parse(resStr, 1, 0, <<>>, 0).ok
        /\ Count(resStr, 60) = 8 * Parse(resStr, 1, 0, <<>>, 0).rubies
        /\ Count(resStr, 62) = 8 * Parse(resStr, 1, 0, <<>>, 0).rubies

\* C7 witness: a ruby pairing whose surface has < and & and whose reading
\* has > and &, next to a plain token with all three.
C7_Witness ==
    /\ op = "buildRubyHTML"
    /\ Len(tokens) = 2
    /\ GetsRuby(tokens[1])
    /\ Count(tokens[1].surface_form, 60) > 0
    /\ Count(tokens[1].reading, 62) > 0
    /\ Count(tokens[1].reading, 38) > 0
    /\ tokens[2].surface_form = <<60, 38, 62>>

HasSurface(token) == token.surface_form # <<>>

\* C11: buildRubyHTML returns a string (a sequence of UTF-16 code units) for
\* every token sequence, tokens without a reading or with an empty one
\* included; the result is empty for the empty sequence, and it is the same
\* as if the tokens with an empty surface form were not there.
C11_Total ==
    op = "buildRubyHTML" =>
        /\ \A i \in 1..Len(resStr) : resStr[i] \in 0..65535
        /\ (tokens = <<>> => resStr = <<>>)
        /\ resStr = ConcatMap(RuleSegment, SelectSeq(tokens, HasSurface), 1)

\* C11 witness: a kanji token without a reading, followed by a token with an
\* empty surface form and a reading.
C11_Witness ==
    /\ op = "buildRubyHTML"
    /\ Len(tokens) = 2
    /\ HasKanji(tokens[1].surface_form)
    /\ ~tokens[1].has_reading
    /\ tokens[2].surface_form = <<>>
    /\ tokens[2].reading # <<>>
    /\ resStr = escapeHTML(tokens[1].surface_form)

\* C17: the loading flag and the handle are never both set, and the flag is
\* set exactly when one build callback is outstanding, never more than one.
C17_InitState ==
    /\ ~(tokenizerLoading /\ tokenizer # 0)
    /\ Cardinality(inflight) <= 1
    /\ tokenizerLoading <=> (Cardinality(inflight) = 1)

\* C17 witness: the second build is outstanding after the first one failed.
C17_Witness ==
    /\ tokenizerLoading
    /\ inflight = {2}
    /\ tokenizer = 0

\* the builds whose callback reports an error in this step
FailedNow == {l \in inflight \ inflight' :
                 calls'[Starter(l)].outcome = "rejected"}

\* C12: no build starts except in an initTokenizer call; a failing build
\* callback clears the flag, leaves the handle null and starts no build; with
\* no build outstanding and no handle the next initTokenizer call starts a
\* build; and the flag is never set while no callback is outstanding.
C12_RetryCallerDriven ==
    /\ [](inflight = {} => ~tokenizerLoading)
    /\ [][/\ (loads' # loads =>
                /\ Len(calls') = Len(calls) + 1
                /\ calls'[Len(calls')].load = loads')
          /\ (FailedNow # {} =>
                /\ ~tokenizerLoading'
                /\ tokenizer' = 0
                /\ loads' = loads)
          /\ ((tokenizer = 0 /\ inflight = {}
                 /\ Len(calls') = Len(calls) + 1) =>
                /\ loads' = loads + 1
                /\ calls'[Len(calls')].load = loads + 1
                /\ calls'[Len(calls')].outcome = "pending"
                /\ inflight' = {loads + 1})]_vars

\* C12 witness: the silent preload failed and a later annotateSelection
\* started the next build.
C12_Witness ==
    \E i, j \in 1..Len(calls) :
        /\ calls[i].caller = "preload"
        /\ calls[i].outcome = "rejected"
        /\ calls[j].caller = "annotate"
        /\ calls[j].load = calls[i].load + 1

\* C18: every button attached to the document is the one floatingBtn refers
\* to, so at most one is attached.
C18_OneButton ==
    /\ \A b \in domBtns : b = floatingBtn
    /\ Cardinality(domBtns) <= 1

\* C18 witness: a button created in place of an earlier one is the only one
\* attached.
C18_Witness ==
    /\ floatingBtn = 2
    /\ domBtns = {2}

\* C14: floatingBtn comes to refer to a new button only in a step of the
\* 10 ms timer taken while the selection is non-empty text with kanji; a step
\* of the timer taken while the selection is empty or kanji-free leaves no
\* button.
C14_Eligibility ==
    [][/\ ((floatingBtn' # 0 /\ floatingBtn' # floatingBtn) =>
             (timers' = timers - 1 /\ selection = "kanji"))
       /\ ((timers' = timers - 1 /\ selection # "kanji") =>
             (floatingBtn' = 0 /\ floatingBtn \notin domBtns'))]_vars

\* C14 witness: a button is shown, the selection has become kanji-free and
\* the timer of the next mouseup is about to fire.
C14_Witness ==
    /\ floatingBtn # 0
    /\ floatingBtn \in domBtns
    /\ timers > 0
    /\ selection = "kana"

\* the annotateSelection calls whose promise is pending
PendingAnnotate == {i \in 1..Len(calls) :
                      calls[i].caller = "annotate"
                        /\ calls[i].outcome = "pending"}

\* the annotateSelection calls whose reaction runs in this step
ReactsNow == {i \in 1..Len(calls') :
                /\ calls'[i].caller = "annotate"
                /\ calls'[i].outcome # "pending"
                /\ (i > Len(calls) \/ calls[i].outcome = "pending")}

\* C16: under the assumption that every build calls back, the pending
\* annotateSelection requests all get their reaction; a request's reaction
\* either inserts its wrapper or is the failure branch, and leaves
\* floatingBtn null; a button in the loading state always has a pending
\* request behind it.
C16_Terminates ==
    /\ (PendingAnnotate # {}) ~> (PendingAnnotate = {})
    /\ [][\A i \in ReactsNow :
             /\ floatingBtn' = 0
             /\ (i \in wrappers'
                   \/ calls'[i].outcome = "rejected"
                   \/ calls'[i].value = 0)]_vars
    /\ [](loadingBtns # {} => PendingAnnotate # {})

\* C16 witness: a request that waited on a build has had its failure
\* reaction, and no button is left.
C16_Witness ==
    /\ floatingBtn = 0
    /\ loadingBtns = {}
    /\ \E i \in 1..Len(calls) :
          /\ calls[i].caller = "annotate"
          /\ calls[i].load # 0
          /\ calls[i].outcome = "rejected"

\* C13: while the content script is disabled there is no floating button.
C13_DisabledNoButton ==
    ~enabled => floatingBtn = 0

\* nothing is in flight: the initial storage read has called back and every
\* message is delivered
Quiescent ==
    /\ ~storagePending
    /\ fromPopup = <<>>
    /\ fromBackground = <<>>

\* C15: once the storage callback and every SET_ENABLED message have been
\* delivered, the enabled flag equals the stored yomimarkEnabled.
C15_Converges ==
    Quiescent => enabled = yomimarkEnabled

====
